---- MODULE Spec2Model ----
(***************************************************************************)
(* A model of the OregonHikers.org source of the trails repository         *)
(* (src/src/trails/sources/oregon_hikers.py): the record schema            *)
(* OregonHikersHike with its validators, the hike-page and search-results  *)
(* parsers, the on-disk fetch cache behind get_hike_from_url and the two   *)
(* batch flows that build the data frame.                                  *)
(*                                                                         *)
(* Python strings are sequences of one-character strings, so that          *)
(* splitting, substring tests, prefixing and digit extraction are computed *)
(* character by character as the code computes them.  A Python value is a  *)
(* tagged record [t, s, n]: None, a str, an int or a parsed Url.           *)
(***************************************************************************)
EXTENDS Integers, Sequences, FiniteSets, TLC

VARIABLES
    fields,          \* the mapping handed to OregonHikersHike(**fields)
    hike,            \* the outcome of that construction
    soup,            \* the hike page handed to _parse_hike_page
    parsed,          \* the outcome of _parse_hike_page
    table,           \* the results page handed to _parse_search_results
    search_results,  \* the outcome of _parse_search_results
    files,           \* the cache directory: file name -> file
    dirExists,       \* whether OH_SOURCE_DIR exists
    netlog,          \* the HTTP requests issued so far
    calls,           \* the get_hike_from_url calls made so far
    pc,              \* position of the batch flow
    flow,            \* which batch flow is running
    urls,            \* the URL list the batch loop iterates
    idx,             \* number of URLs of the list already processed
    df,              \* the data frame being built, one row per record
    returned         \* whether a data frame was returned to the caller

vars == <<fields, hike, soup, parsed, table, search_results, files, dirExists,
          netlog, calls, pc, flow, urls, idx, df, returned>>

schemaVars == <<fields, hike>>
parseVars == <<soup, parsed>>
searchVars == <<table, search_results>>
diskVars == <<files, dirExists>>
batchVars == <<pc, flow, urls, idx, df, returned>>

-----------------------------------------------------------------------------
(* Bounds of the model.                                                    *)

\* longest free text tried for the two numeric fields
MaxTextLen == 4
\* most list items of a summary list
MaxItems == 2
\* most data rows of a results table
MaxRows == 3
\* most standalone get_hike_from_url calls
MaxCalls == 2
\* most data rows of a listing the discovery flow is given
MaxListed == 2

-----------------------------------------------------------------------------
(* Python values and strings.                                              *)

None == [t |-> "None", s |-> <<>>, n |-> 0]
PyStr(chars) == [t |-> "str", s |-> chars, n |-> 0]
PyInt(k) == [t |-> "int", s |-> <<>>, n |-> k]
PyUrl(chars) == [t |-> "Url", s |-> chars, n |-> 0]

Digits == <<"0","1","2","3","4","5","6","7","8","9">>
IsDigit(c) == \E i \in 1..10 : Digits[i] = c
DigitVal(c) == (CHOOSE i \in 1..10 : Digits[i] = c) - 1

UpperCase == <<"A","B","C","D","E","F","G","H","I","J","K","L","M","N","O","P","Q","R","S","T","U","V","W","X","Y","Z">>
LowerCase == <<"a","b","c","d","e","f","g","h","i","j","k","l","m","n","o","p","q","r","s","t","u","v","w","x","y","z">>
Lower(c) ==
    IF \E i \in 1..26 : UpperCase[i] = c
    THEN LowerCase[CHOOSE i \in 1..26 : UpperCase[i] = c]
    ELSE c
LowerStr(s) == [i \in 1..Len(s) |-> Lower(s[i])]

Whitespace == {" ", "\n", "\t"}

\* s.startswith(p)
HasPrefix(s, p) == Len(p) <= Len(s) /\ SubSeq(s, 1, Len(p)) = p

\* sub in s
Contains(s, sub) ==
    \E i \in 1..(Len(s) - Len(sub) + 1) : SubSeq(s, i, i + Len(sub) - 1) = sub

\* index of the first occurrence of character c in s, 0 when there is none
IndexOf(s, c) ==
    IF \E i \in 1..Len(s) : s[i] = c
    THEN CHOOSE i \in 1..Len(s) : s[i] = c /\ \A j \in 1..(i - 1) : s[j] # c
    ELSE 0

\* s.split("/")[-1]: what follows the last "/", the whole of s without one
LastSegment(s) ==
    LET cut == IF \E i \in 1..Len(s) : s[i] = "/"
               THEN CHOOSE i \in 1..Len(s) :
                        s[i] = "/" /\ \A j \in (i + 1)..Len(s) : s[j] # "/"
               ELSE 0
    IN  SubSeq(s, cut + 1, Len(s))

\* s.strip()
Strip(s) ==
    IF \A i \in 1..Len(s) : s[i] \in Whitespace
    THEN <<>>
    ELSE LET a == CHOOSE i \in 1..Len(s) :
                      s[i] \notin Whitespace
                      /\ \A j \in 1..(i - 1) : s[j] \in Whitespace
             b == CHOOSE i \in 1..Len(s) :
                      s[i] \notin Whitespace
                      /\ \A j \in (i + 1)..Len(s) : s[j] \in Whitespace
         IN  SubSeq(s, a, b)

\* s.replace("\n", " ")
ReplaceNewlines(s) == [i \in 1..Len(s) |-> IF s[i] = "\n" THEN " " ELSE s[i]]

\* int(ds) for a string of decimal digits
RECURSIVE DecimalValue(_)
DecimalValue(ds) ==
    IF ds = <<>> THEN 0
    ELSE 10 * DecimalValue(SubSeq(ds, 1, Len(ds) - 1)) + DigitVal(ds[Len(ds)])

-----------------------------------------------------------------------------
(* The record schema: OregonHikersHike and OregonHikersSearchResult.       *)

FieldNames ==
    {"title", "url", "start_point_name", "start_point_url", "end_point_name",
     "end_point_url", "trail_log_url", "hike_type", "distance_in_miles",
     "elevation_gain_in_feet", "high_point_in_feet", "difficulty", "seasons",
     "family_friendly", "backpackable", "crowded", "description"}

\* the declared type of each field
RequiredStrFields ==
    {"title", "distance_in_miles", "difficulty", "seasons", "crowded", "description"}
OptionalStrFields ==
    {"start_point_name", "end_point_name", "hike_type", "family_friendly", "backpackable"}
UrlFields == {"url", "start_point_url", "end_point_url", "trail_log_url"}
IntFields == {"elevation_gain_in_feet", "high_point_in_feet"}
OptionalFields ==
    OptionalStrFields \cup {"start_point_url", "end_point_url", "trail_log_url",
                            "high_point_in_feet"}

\* a slip: the pattern \d in place of \d+ takes one digit only
FirstDigitOnly(s) ==
    LET a == CHOOSE i \in 1..Len(s) :
                 IsDigit(s[i]) /\ \A j \in 1..(i - 1) : ~IsDigit(s[j])
    IN  SubSeq(s, a, a)

\* re.search(r"\d+", s).group(): the leftmost digit run, taken greedily
FirstDigitRun(s) ==
    LET a == CHOOSE i \in 1..Len(s) :
                 IsDigit(s[i]) /\ \A j \in 1..(i - 1) : ~IsDigit(s[j])
        b == CHOOSE j \in a..Len(s) :
                 (\A k \in a..j : IsDigit(s[k]))
                 /\ (j = Len(s) \/ ~IsDigit(s[j + 1]))
    IN  SubSeq(s, a, b)

\* a slip: a text without digits defaults to 0
ExtractIntsDefaultZero(v) ==
    IF v.t = "str"
    THEN IF \E i \in 1..Len(v.s) : IsDigit(v.s[i])
         THEN PyInt(DecimalValue(FirstDigitRun(v.s)))
         ELSE PyInt(0)
    ELSE v

\* the "before" validator of the two numeric fields
ExtractInts(v) ==
    IF v.t = "str" /\ (\E i \in 1..Len(v.s) : IsDigit(v.s[i]))
    THEN PyInt(DecimalValue(FirstDigitRun(v.s)))
    ELSE v

\* HttpUrl: the scheme is http or https in any case, the slashes after the
\* colon are skipped, and the host that follows is not empty and holds no
\* white space
UrlScheme(s) == LowerStr(SubSeq(s, 1, IndexOf(s, ":") - 1))
UrlAfterSlashes(s) ==
    LET rest == SubSeq(s, IndexOf(s, ":") + 1, Len(s))
        skip == IF \A i \in 1..Len(rest) : rest[i] = "/"
                THEN Len(rest)
                ELSE (CHOOSE i \in 1..Len(rest) :
                          rest[i] # "/" /\ \A j \in 1..(i - 1) : rest[j] = "/") - 1
    IN  SubSeq(rest, skip + 1, Len(rest))
UrlHost(s) ==
    LET r == UrlAfterSlashes(s)
        e == IndexOf(r, "/")
    IN  IF e = 0 THEN r ELSE SubSeq(r, 1, e - 1)
UrlPath(s) ==
    LET r == UrlAfterSlashes(s)
        e == IndexOf(r, "/")
    IN  IF e = 0 THEN <<"/">> ELSE SubSeq(r, e, Len(r))
IsHttpUrl(s) ==
    /\ IndexOf(s, ":") > 1
    /\ UrlScheme(s) \in {<<"h","t","t","p">>, <<"h","t","t","p","s">>}
    /\ UrlHost(s) # <<>>
    /\ \A i \in 1..Len(UrlHost(s)) : UrlHost(s)[i] \notin Whitespace

\* the parsed Url: scheme and host in lower case, an empty path becomes "/"
HttpUrl(s) == PyUrl(UrlScheme(s) \o <<":","/","/">> \o LowerStr(UrlHost(s)) \o UrlPath(s))

\* a slip: the validator drops what it cannot parse
CastUrlDropInvalid(v) ==
    IF v.t = "str" /\ v.s # <<>> /\ IsHttpUrl(v.s) THEN HttpUrl(v.s)
    ELSE IF v.t = "str" THEN None ELSE v

\* the "before" validator of the four URL fields; an empty string falls
\* through both branches and the validator returns None
CastUrl(v) ==
    IF v.t = "None" THEN None
    ELSE IF v.t = "str" /\ v.s # <<>>
         THEN IF IsHttpUrl(v.s) THEN HttpUrl(v.s) ELSE v
         ELSE IF v.t = "str" THEN None ELSE v

\* what the "before" validators hand to the field's own validation
BeforeValidators(f) ==
    [k \in FieldNames |->
        IF k \in IntFields THEN ExtractInts(f[k])
        ELSE IF k \in UrlFields THEN CastUrl(f[k])
        ELSE f[k]]

\* a str is accepted for an int field only when it reads as an integer
StrIsInt(s) == Strip(s) # <<>> /\ \A i \in 1..Len(Strip(s)) : IsDigit(Strip(s)[i])

\* validation of a value against the declared type of field k
FieldValid(k, v) ==
    \/ v.t = "None" /\ k \in OptionalFields
    \/ k \in RequiredStrFields \cup OptionalStrFields /\ v.t = "str"
    \/ k \in IntFields /\ (v.t = "int" \/ (v.t = "str" /\ StrIsInt(v.s)))
    \/ k \in UrlFields /\ (v.t = "Url" \/ (v.t = "str" /\ IsHttpUrl(v.s)))

\* the value the validated field holds
FieldValue(k, v) ==
    IF k \in IntFields /\ v.t = "str" THEN PyInt(DecimalValue(Strip(v.s)))
    ELSE IF k \in UrlFields /\ v.t = "str" THEN HttpUrl(v.s)
    ELSE v

\* the "after" model validator: every str value is stripped and its
\* newlines replaced by spaces
StripNewlines(h) ==
    [k \in FieldNames |->
        IF h[k].t = "str" THEN PyStr(ReplaceNewlines(Strip(h[k].s))) ELSE h[k]]

NoRecord == [k \in FieldNames |-> None]

\* OregonHikersHike(**f): the record, or a ValidationError; "before" keeps
\* what the "before" validators returned
Construct(f) ==
    LET b == BeforeValidators(f)
    IN  IF \A k \in FieldNames : FieldValid(k, b[k])
        THEN [err |-> "none", before |-> b,
              rec |-> StripNewlines([k \in FieldNames |-> FieldValue(k, b[k])])]
        ELSE [err |-> "ValidationError", before |-> b, rec |-> NoRecord]

\* the two prefixes the module puts in front of a relative address
SEARCH_RESULT_BASE == <<"h","t","t","p","s",":","/","/","w","w","w",".","o","r","e","g","o","n","h","i","k","e","r","s",".","o","r","g","/">>
HIKE_PAGE_BASE == <<"h","t","t","p","s",":","/","/","w","w","w",".","o","r","e","g","o","n","h","i","k","e","r","s",".","o","r","g">>

\* OregonHikersSearchResult.url
SearchResultUrl(uri) == SEARCH_RESULT_BASE \o uri

-----------------------------------------------------------------------------
(* Construction of a record from a field mapping.                          *)

\* the field mapping of the repository's own test
ExampleHikeData ==
    [k \in FieldNames |->
        CASE k = "title" -> PyStr(<<"T","e","s","t"," ","H","i","k","e">>)
          [] k = "url" -> PyStr(<<"h","t","t","p","s",":","/","/","w","w","w",".","o","r","e","g","o","n","h","i","k","e","r","s",".","o","r","g","/","t","e","s","t">>)
          [] k = "start_point_name" -> PyStr(<<"S","t","a","r","t"," ","P","o","i","n","t">>)
          [] k = "start_point_url" -> PyStr(<<"h","t","t","p","s",":","/","/","w","w","w",".","o","r","e","g","o","n","h","i","k","e","r","s",".","o","r","g","/","s","t","a","r","t">>)
          [] k = "end_point_name" -> PyStr(<<"E","n","d"," ","P","o","i","n","t">>)
          [] k = "end_point_url" -> PyStr(<<"h","t","t","p","s",":","/","/","w","w","w",".","o","r","e","g","o","n","h","i","k","e","r","s",".","o","r","g","/","e","n","d">>)
          [] k = "trail_log_url" -> PyStr(<<"h","t","t","p","s",":","/","/","w","w","w",".","o","r","e","g","o","n","h","i","k","e","r","s",".","o","r","g","/","l","o","g">>)
          [] k = "hike_type" -> PyStr(<<"L","o","o","p">>)
          [] k = "distance_in_miles" -> PyStr(<<"5"," ","m","i","l","e","s">>)
          [] k = "elevation_gain_in_feet" -> PyStr(<<"5","0","0"," ","f","e","e","t">>)
          [] k = "high_point_in_feet" -> PyStr(<<"1","0","0","0"," ","f","e","e","t">>)
          [] k = "difficulty" -> PyStr(<<"M","o","d","e","r","a","t","e">>)
          [] k = "seasons" -> PyStr(<<"A","l","l">>)
          [] k = "family_friendly" -> PyStr(<<"Y","e","s">>)
          [] k = "backpackable" -> PyStr(<<"N","o">>)
          [] k = "crowded" -> PyStr(<<"N","o">>)
          [] OTHER -> PyStr(<<"A"," ","t","e","s","t"," ","h","i","k","e">>)]

\* free texts for the numeric fields: every text of at most MaxTextLen
\* characters over a letter and two digits
TextAlphabet == {"a", "1", "0"}
Texts == UNION {[1..n -> TextAlphabet] : n \in 0..MaxTextLen}
NumericInputs == {None, PyInt(7)} \cup {PyStr(s) : s \in Texts}
FewNumericInputs ==
    {None, PyStr(<<"1","0","0","0"," ","f","e","e","t">>), PyStr(<<"h","i","g","h">>), PyStr(<<"E","l","e","v","a","t","i","o","n"," ","g","a","i","n",":"," ","5","0","0"," ","f","e","e","t">>)}

\* values for the URL fields: absent, empty, absolute, absolute in upper
\* case without a path, relative, and free text
UrlInputs ==
    {None, PyStr(<<>>), PyStr(<<"h","t","t","p","s",":","/","/","w","w","w",".","o","r","e","g","o","n","h","i","k","e","r","s",".","o","r","g","/","s","t","a","r","t">>),
     PyStr(<<"H","T","T","P","S",":","/","/","W","W","W",".","O","r","e","g","o","n","H","i","k","e","r","s",".","o","r","g">>), PyStr(<<"/","s","t","a","r","t">>), PyStr(<<"n","o","t"," ","a"," ","u","r","l">>)}

TitleInputs == {PyStr(<<"T","e","s","t"," ","H","i","k","e">>), PyStr(<<" ","T","e","s","t","\n","H","i","k","e"," ","\n">>), None}

NotConstructed == [err |-> "pending", before |-> NoRecord, rec |-> NoRecord]

SchemaInputs ==
    {[ExampleHikeData EXCEPT !["elevation_gain_in_feet"] = e,
                             !["high_point_in_feet"] = h] :
        e \in NumericInputs, h \in FewNumericInputs}
    \cup
    {[ExampleHikeData EXCEPT !["elevation_gain_in_feet"] = e,
                             !["high_point_in_feet"] = h] :
        e \in FewNumericInputs, h \in NumericInputs}
    \cup
    {[ExampleHikeData EXCEPT !["url"] = u, !["start_point_url"] = s,
                             !["end_point_url"] = e, !["trail_log_url"] = l,
                             !["title"] = t] :
        u \in UrlInputs, s \in UrlInputs, e \in UrlInputs, l \in UrlInputs,
        t \in TitleInputs}

\* OregonHikersHike(**fields)
ConstructHike ==
    /\ hike.err = "pending"
    /\ hike' = Construct(fields)
    /\ UNCHANGED <<fields, parseVars, searchVars, diskVars, netlog, calls, batchVars>>

-----------------------------------------------------------------------------
(* The page parsers.  A hike page is the part of the document the parser   *)
(* looks at: the first h1, whether the div with id mw-content-text and its *)
(* first ul exist, the li elements of that ul in document order, and the   *)
(* first p of the div.  A list item is its text and its first anchor.      *)

NoAnchor == [present |-> FALSE, text |-> <<>>, title |-> None, href |-> None]
Anchor(text, title, href) ==
    [present |-> TRUE, text |-> text, title |-> title, href |-> href]
Li(text, a) == [text |-> text, a |-> a]

ParsedFieldNames == FieldNames \ {"url"}
NoFields == [k \in ParsedFieldNames |-> None]

\* a slip: the last matching item wins
LastMatch(lis, label) ==
    IF \E i \in 1..Len(lis) : Contains(lis[i].text, label)
    THEN CHOOSE i \in 1..Len(lis) :
             /\ Contains(lis[i].text, label)
             /\ \A j \in (i + 1)..Len(lis) : ~Contains(lis[j].text, label)
    ELSE 0

\* next((li for li in summary_lis if label in li.text), None): the index of
\* the first item whose text contains the label, 0 for None
FirstMatch(lis, label) ==
    IF \E i \in 1..Len(lis) : Contains(lis[i].text, label)
    THEN CHOOSE i \in 1..Len(lis) :
             /\ Contains(lis[i].text, label)
             /\ \A j \in 1..(i - 1) : ~Contains(lis[j].text, label)
    ELSE 0

\* li.text of the first item with the label, None without one
LabelText(lis, label) ==
    IF FirstMatch(lis, label) = 0 THEN None
    ELSE PyStr(lis[FirstMatch(lis, label)].text)

\* li.find("a")["title"] of the first item with the label
PointName(lis, label) ==
    IF FirstMatch(lis, label) = 0 THEN None
    ELSE lis[FirstMatch(lis, label)].a.title

\* li.find("a")["href"] of the first item with the label, with the site's
\* address in front when the href is not empty
PointUrl(lis, label) ==
    IF FirstMatch(lis, label) = 0 THEN None
    ELSE LET href == lis[FirstMatch(lis, label)].a.href
         IN  IF href.s # <<>> THEN PyStr(HIKE_PAGE_BASE \o href.s) ELSE href

\* the trail log's address, only when the item holds an anchor
TrailLogUrl(lis) ==
    IF FirstMatch(lis, <<"T","r","a","i","l"," ","L","o","g">>) # 0 /\ lis[FirstMatch(lis, <<"T","r","a","i","l"," ","L","o","g">>)].a.present
    THEN PyStr(HIKE_PAGE_BASE \o lis[FirstMatch(lis, <<"T","r","a","i","l"," ","L","o","g">>)].a.href.s)
    ELSE None

\* the exception a point's item raises: subscripting the None that find("a")
\* returns, or an anchor without the attribute
PointError(lis, label) ==
    IF FirstMatch(lis, label) = 0 THEN "none"
    ELSE LET a == lis[FirstMatch(lis, label)].a
         IN  IF ~a.present THEN "TypeError"
             ELSE IF a.title.t = "None" \/ a.href.t = "None" THEN "KeyError"
             ELSE "none"

TrailLogError(lis) ==
    IF /\ FirstMatch(lis, <<"T","r","a","i","l"," ","L","o","g">>) # 0
       /\ lis[FirstMatch(lis, <<"T","r","a","i","l"," ","L","o","g">>)].a.present
       /\ lis[FirstMatch(lis, <<"T","r","a","i","l"," ","L","o","g">>)].a.href.t = "None"
    THEN "KeyError"
    ELSE "none"

\* the first exception _parse_hike_page raises on the page, in the order of
\* its statements
ParseError(page) ==
    IF page.h1.t = "None" \/ ~page.content \/ ~page.ul THEN "AttributeError"
    ELSE IF PointError(page.lis, <<"S","t","a","r","t"," ","p","o","i","n","t">>) # "none"
         THEN PointError(page.lis, <<"S","t","a","r","t"," ","p","o","i","n","t">>)
    ELSE IF PointError(page.lis, <<"E","n","d"," ","p","o","i","n","t">>) # "none"
         THEN PointError(page.lis, <<"E","n","d"," ","p","o","i","n","t">>)
    ELSE IF TrailLogError(page.lis) # "none" THEN TrailLogError(page.lis)
    ELSE IF page.p.t = "None" THEN "AttributeError"
    ELSE "none"

\* the mapping _parse_hike_page returns
ParsedFields(page) ==
    [k \in ParsedFieldNames |->
        CASE k = "title" -> page.h1
          [] k = "start_point_name" -> PointName(page.lis, <<"S","t","a","r","t"," ","p","o","i","n","t">>)
          [] k = "start_point_url" -> PointUrl(page.lis, <<"S","t","a","r","t"," ","p","o","i","n","t">>)
          [] k = "end_point_name" -> PointName(page.lis, <<"E","n","d"," ","p","o","i","n","t">>)
          [] k = "end_point_url" -> PointUrl(page.lis, <<"E","n","d"," ","p","o","i","n","t">>)
          [] k = "trail_log_url" -> TrailLogUrl(page.lis)
          [] k = "hike_type" -> LabelText(page.lis, <<"H","i","k","e"," ","T","y","p","e">>)
          [] k = "distance_in_miles" -> LabelText(page.lis, <<"D","i","s","t","a","n","c","e">>)
          [] k = "elevation_gain_in_feet" -> LabelText(page.lis, <<"E","l","e","v","a","t","i","o","n"," ","g","a","i","n">>)
          [] k = "high_point_in_feet" -> LabelText(page.lis, <<"H","i","g","h"," ","p","o","i","n","t">>)
          [] k = "difficulty" -> LabelText(page.lis, <<"D","i","f","f","i","c","u","l","t","y">>)
          [] k = "seasons" -> LabelText(page.lis, <<"S","e","a","s","o","n","s">>)
          [] k = "family_friendly" -> LabelText(page.lis, <<"F","a","m","i","l","y"," ","F","r","i","e","n","d","l","y">>)
          [] k = "backpackable" -> LabelText(page.lis, <<"B","a","c","k","p","a","c","k","a","b","l","e">>)
          [] k = "crowded" -> LabelText(page.lis, <<"C","r","o","w","d","e","d">>)
          [] OTHER -> page.p]

\* _parse_hike_page(soup): the mapping, or the exception raised
ParseHikePage(page) ==
    IF ParseError(page) = "none"
    THEN [err |-> "none", d |-> ParsedFields(page)]
    ELSE [err |-> ParseError(page), d |-> NoFields]

NotParsed == [err |-> "pending", d |-> NoFields]

\* the summary list of the repository's own test
FixtureItems ==
    << Li(<<"S","t","a","r","t"," ","p","o","i","n","t",":"," ","S","t","a","r","t"," ","P","o","i","n","t">>, Anchor(<<"S","t","a","r","t"," ","P","o","i","n","t">>, PyStr(<<"S","t","a","r","t"," ","P","o","i","n","t">>), PyStr(<<"/","s","t","a","r","t">>))),
       Li(<<"E","n","d"," ","p","o","i","n","t",":"," ","E","n","d"," ","P","o","i","n","t">>, Anchor(<<"E","n","d"," ","P","o","i","n","t">>, PyStr(<<"E","n","d"," ","P","o","i","n","t">>), PyStr(<<"/","e","n","d">>))),
       Li(<<"T","r","a","i","l"," ","L","o","g",":"," ","L","o","g">>, Anchor(<<"L","o","g">>, None, PyStr(<<"/","l","o","g">>))),
       Li(<<"H","i","k","e"," ","T","y","p","e",":"," ","L","o","o","p">>, NoAnchor),
       Li(<<"D","i","s","t","a","n","c","e",":"," ","5"," ","m","i","l","e","s">>, NoAnchor),
       Li(<<"E","l","e","v","a","t","i","o","n"," ","g","a","i","n",":"," ","5","0","0"," ","f","e","e","t">>, NoAnchor),
       Li(<<"H","i","g","h"," ","p","o","i","n","t",":"," ","1","0","0","0"," ","f","e","e","t">>, NoAnchor),
       Li(<<"D","i","f","f","i","c","u","l","t","y",":"," ","M","o","d","e","r","a","t","e">>, NoAnchor),
       Li(<<"S","e","a","s","o","n","s",":"," ","A","l","l">>, NoAnchor),
       Li(<<"F","a","m","i","l","y"," ","F","r","i","e","n","d","l","y",":"," ","Y","e","s">>, NoAnchor),
       Li(<<"B","a","c","k","p","a","c","k","a","b","l","e",":"," ","N","o">>, NoAnchor),
       Li(<<"C","r","o","w","d","e","d",":"," ","N","o">>, NoAnchor) >>

Page(h1, content, ul, lis, p) ==
    [h1 |-> h1, content |-> content, ul |-> ul, lis |-> lis, p |-> p]

FixturePage ==
    Page(PyStr(<<"T","e","s","t"," ","H","i","k","e">>), TRUE, TRUE, FixtureItems, PyStr(<<"D","e","s","c","r","i","p","t","i","o","n">>))

\* list items the summary lists are built from: items with and without an
\* anchor, anchors without title or href or with an empty href, a label in
\* lower case, several labels in one item, a label met a second time
ItemPool ==
    { FixtureItems[1], FixtureItems[2], FixtureItems[3],
      Li(<<"S","t","a","r","t"," ","p","o","i","n","t",":"," ","u","n","n","a","m","e","d">>, NoAnchor),
      Li(<<"s","t","a","r","t"," ","p","o","i","n","t",":"," ","G","a","t","e">>, Anchor(<<"G","a","t","e">>, PyStr(<<"G","a","t","e">>), PyStr(<<"/","g","a","t","e">>))),
      Li(<<"S","t","a","r","t"," ","p","o","i","n","t",":"," ","L","o","t">>, Anchor(<<"L","o","t">>, None, PyStr(<<"/","l","o","t">>))),
      Li(<<"E","n","d"," ","p","o","i","n","t",":"," ","H","e","r","e">>, Anchor(<<"H","e","r","e">>, PyStr(<<"H","e","r","e">>), PyStr(<<>>))),
      Li(<<"T","r","a","i","l"," ","L","o","g",":"," ","n","o","n","e"," ","y","e","t">>, NoAnchor),
      Li(<<"T","r","a","i","l"," ","L","o","g",":"," ","D","r","a","f","t">>, Anchor(<<"D","r","a","f","t">>, PyStr(<<"D","r","a","f","t">>), None)),
      Li(<<"H","i","k","e"," ","T","y","p","e",":"," ","L","o","o","p"," ","D","i","s","t","a","n","c","e",":"," ","5"," ","m","i","l","e","s"," ","E","l","e","v","a","t","i","o","n"," ","g","a","i","n",":"," ","5","0","0"," ","f","e","e","t">>, NoAnchor),
      Li(<<"H","i","g","h"," ","p","o","i","n","t",":"," ","1","0","0","0"," ","f","e","e","t"," ","D","i","f","f","i","c","u","l","t","y",":"," ","M","o","d","e","r","a","t","e"," ","S","e","a","s","o","n","s",":"," ","A","l","l">>, NoAnchor),
      Li(<<"F","a","m","i","l","y"," ","F","r","i","e","n","d","l","y",":"," ","Y","e","s"," ","B","a","c","k","p","a","c","k","a","b","l","e",":"," ","N","o"," ","C","r","o","w","d","e","d",":"," ","N","o">>, NoAnchor),
      Li(<<"D","i","s","t","a","n","c","e",":"," ","9"," ","m","i","l","e","s",";"," ","C","r","o","w","d","e","d",":"," ","Y","e","s",";"," ","S","e","a","s","o","n","s",":"," ","S","u","m","m","e","r">>, NoAnchor),
      Li(<<"b","a","c","k","p","a","c","k","a","b","l","e",":"," ","y","e","s",";"," ","H","i","g","h"," ","p","o","i","n","t",":"," ","3",";"," ","H","i","k","e"," ","T","y","p","e",":"," ","O","u","t">>, NoAnchor) }

SummaryLists == UNION {[1..n -> ItemPool] : n \in 0..MaxItems}

PageInputs ==
    {Page(PyStr(<<"T","e","s","t"," ","H","i","k","e">>), TRUE, TRUE, lis, PyStr(<<"D","e","s","c","r","i","p","t","i","o","n">>)) :
        lis \in SummaryLists}
    \cup
    {Page(h1, content, ul, FixtureItems, p) :
        h1 \in {None, PyStr(<<"T","e","s","t"," ","H","i","k","e">>)}, content \in BOOLEAN, ul \in BOOLEAN,
        p \in {None, PyStr(<<"D","e","s","c","r","i","p","t","i","o","n">>)}}

\* _parse_hike_page(soup)
ParsePage ==
    /\ parsed.err = "pending"
    /\ parsed' = ParseHikePage(soup)
    /\ UNCHANGED <<schemaVars, soup, searchVars, diskVars, netlog, calls, batchVars>>

-----------------------------------------------------------------------------
(* The search-results page: whether the table of class wikitable exists    *)
(* and, for each tr of it in document order, the row's first anchor.       *)

Row(a) == [a |-> a]
SearchResult(title, uri) ==
    [title |-> title, uri |-> uri, url |-> SearchResultUrl(uri)]

\* table.find_all("tr")[1:]
DataRows(rows) == SubSeq(rows, 2, Len(rows))

\* the exception the loop raises at its first row without an anchor or
\* whose anchor has no href
SearchError(page) ==
    IF ~page.present THEN "AttributeError"
    ELSE LET rows == DataRows(page.rows)
             bad == {i \in 1..Len(rows) : ~rows[i].a.present \/ rows[i].a.href.t = "None"}
         IN  IF bad = {} THEN "none"
             ELSE LET i == CHOOSE i \in bad : \A j \in bad : i <= j
                  IN  IF ~rows[i].a.present THEN "AttributeError" ELSE "KeyError"

\* _parse_search_results(soup): the list of results, or the exception
ParseSearchResults(page) ==
    IF SearchError(page) = "none"
    THEN [err |-> "none",
          list |-> [i \in 1..Len(DataRows(page.rows)) |->
                       SearchResult(DataRows(page.rows)[i].a.text,
                                    DataRows(page.rows)[i].a.href.s)]]
    ELSE [err |-> SearchError(page), list |-> <<>>]

NotSearched == [err |-> "pending", list |-> <<>>]

HeaderRow == Row(NoAnchor)
RowPool ==
    { Row(Anchor(<<"B","e","l","l","s"," ","M","o","u","n","t","a","i","n"," ","H","i","k","e">>, PyStr(<<"B","e","l","l","s"," ","M","o","u","n","t","a","i","n"," ","H","i","k","e">>),
                 PyStr(<<"/","f","i","e","l","d","_","g","u","i","d","e","/","B","e","l","l","s","_","M","o","u","n","t","a","i","n","_","H","i","k","e">>))),
      Row(Anchor(<<"A">>, None, PyStr(<<"/","f","i","e","l","d","_","g","u","i","d","e","/","A">>))),
      Row(Anchor(<<"A"," ","(","o","l","d",")">>, None, PyStr(<<"/","w","/","A">>))),
      Row(Anchor(<<"B">>, None, PyStr(<<"f","i","e","l","d","_","g","u","i","d","e","/","B">>))),
      Row(Anchor(<<"C">>, None, None)),
      Row(NoAnchor) }

TableInputs ==
    {[present |-> FALSE, rows |-> <<>>], [present |-> TRUE, rows |-> <<>>]}
    \cup
    {[present |-> TRUE, rows |-> <<HeaderRow>> \o rs] :
        rs \in UNION {[1..n -> RowPool] : n \in 0..MaxRows}}

\* _parse_search_results(soup)
ParseResults ==
    /\ search_results.err = "pending"
    /\ search_results' = ParseSearchResults(table)
    /\ UNCHANGED <<schemaVars, parseVars, table, diskVars, netlog, calls, batchVars>>

-----------------------------------------------------------------------------
(* The fetch cache.  A response body is the document as the two parsers    *)
(* see it; a file of the cache directory holds the body written to it and  *)
(* the URL of the response it was written from.                            *)

OH_SOURCE_DIR == <<".","/">>

NoTable == [present |-> FALSE, rows |-> <<>>]
EmptyPage == Page(None, FALSE, FALSE, <<>>, None)
HikeDoc(page) == [page |-> page, table |-> NoTable]
ListingDoc(tbl) == [page |-> EmptyPage, table |-> tbl]

File(text, origin) == [text |-> text, origin |-> origin]
NoFile == File(HikeDoc(EmptyPage), <<>>)

\* os.path.join(dir, name)
JoinPath(dir, name) ==
    IF HasPrefix(name, <<"/">>) THEN name
    ELSE IF dir = <<>> \/ dir[Len(dir)] = "/" THEN dir \o name
    ELSE dir \o <<"/">> \o name

\* hike_name = url.split("/")[-1]
HikeName(url) == LastSegment(url)

\* os.path.join(OH_SOURCE_DIR, f"{hike_name}.html")
HikePath(url) == JoinPath(OH_SOURCE_DIR, HikeName(url) \o <<".","h","t","m","l">>)

\* a slip: the cache is never consulted
NeverCached(fs, dir, path) == FALSE

\* os.path.exists(hike_path)
PathExists(fs, dir, path) == dir /\ path \in DOMAIN fs

\* a slip: only server errors raise
RaisesForServerErrorOnly(status) == status >= 500 /\ status < 600

\* response.raise_for_status() raises HTTPError: a 4xx or 5xx status
RaisesForStatus(status) == status >= 400 /\ status < 600

Response(status, text, url) == [status |-> status, text |-> text, url |-> url]

\* _download_hike_source(url) given the server's response: the directory is
\* made, an HTTPError becomes SystemExit, any other response's body is
\* written to the file named after the URL's last segment
DownloadHikeSource(fs, url, resp) ==
    IF RaisesForStatus(resp.status)
    THEN [exit |-> TRUE, files |-> fs]
    ELSE [exit |-> FALSE,
          files |-> [p \in DOMAIN fs \cup {HikePath(url)} |->
                        IF p = HikePath(url) THEN File(resp.text, resp.url) ELSE fs[p]]]

\* hike pages a server answers with
OtherHikePage ==
    Page(PyStr(<<"O","t","h","e","r","\n","H","i","k","e">>), TRUE, TRUE,
         << Li(<<"D","i","s","t","a","n","c","e",":"," ","9"," ","m","i","l","e","s",";"," ","C","r","o","w","d","e","d",":"," ","Y","e","s",";"," ","S","e","a","s","o","n","s",":"," ","S","u","m","m","e","r">>, NoAnchor),
            Li(<<"E","l","e","v","a","t","i","o","n"," ","g","a","i","n",":"," ","1",",","2","0","0"," ","f","e","e","t"," ","D","i","f","f","i","c","u","l","t","y",":"," ","E","a","s","y">>, NoAnchor) >>,
         PyStr(<<" ","A","n","o","t","h","e","r"," ","h","i","k","e","\n">>))
NoElevationPage ==
    Page(PyStr(<<"F","l","a","t"," ","H","i","k","e">>), TRUE, TRUE,
         << Li(<<"D","i","s","t","a","n","c","e",":"," ","1"," ","m","i","l","e",";"," ","C","r","o","w","d","e","d",":"," ","N","o",";"," ","S","e","a","s","o","n","s",":"," ","A","l","l">>, NoAnchor),
            Li(<<"E","l","e","v","a","t","i","o","n"," ","g","a","i","n",":"," ","n","o","n","e"," ","D","i","f","f","i","c","u","l","t","y",":"," ","E","a","s","y">>, NoAnchor) >>,
         PyStr(<<"F","l","a","t">>))

ServerPages == {FixturePage, OtherHikePage, NoElevationPage, EmptyPage}

\* _parse_hike_page of each page a file can hold, computed once
ParsedPage == [p \in ServerPages |-> ParseHikePage(p)]

\* the rest of get_hike_from_url once the file exists: read it, parse it,
\* construct the record
ReadAndParse(file, url) ==
    LET page == ParsedPage[file.text.page]
        built == Construct([k \in FieldNames |->
                               IF k = "url" THEN PyStr(url) ELSE page.d[k]])
    IN  IF page.err # "none" THEN [outcome |-> page.err, rec |-> NoRecord]
        ELSE IF built.err # "none" THEN [outcome |-> built.err, rec |-> NoRecord]
        ELSE [outcome |-> "returned", rec |-> built.rec]

\* get_hike_from_url(url) on a cache hit
GetHikeCached(fs, url) ==
    [files |-> fs, requested |-> FALSE, status |-> 0, wrote |-> FALSE,
     path |-> HikePath(url), didRead |-> TRUE, read |-> fs[HikePath(url)],
     result |-> ReadAndParse(fs[HikePath(url)], url)]

\* get_hike_from_url(url) on a cache miss, given the server's response
GetHikeDownloaded(fs, url, resp) ==
    LET d == DownloadHikeSource(fs, url, resp)
    IN  IF d.exit
        THEN [files |-> fs, requested |-> TRUE, status |-> resp.status,
              wrote |-> FALSE, path |-> HikePath(url), didRead |-> FALSE,
              read |-> NoFile,
              result |-> [outcome |-> "SystemExit", rec |-> NoRecord]]
        ELSE [files |-> d.files, requested |-> TRUE, status |-> resp.status,
              wrote |-> TRUE, path |-> HikePath(url), didRead |-> TRUE,
              read |-> d.files[HikePath(url)],
              result |-> ReadAndParse(d.files[HikePath(url)], url)]

\* an entry of the request log
Request(kind, url, status, wrote) ==
    [kind |-> kind, url |-> url, status |-> status, wrote |-> wrote]

\* what a call of get_hike_from_url did: the path it resolved, whether the
\* file existed, the requests it issued, whether the file at the path is
\* after the call what it was before, and the URL of the response the file
\* it read was written from
CallRecord(fs, dir, url, g) ==
    [url |-> url, path |-> g.path, existed |-> PathExists(fs, dir, g.path),
     requests |-> IF g.requested THEN 1 ELSE 0, outcome |-> g.result.outcome,
     unchanged |-> /\ g.path \in DOMAIN fs
                   /\ g.path \in DOMAIN g.files
                   /\ g.files[g.path] = fs[g.path],
     didRead |-> g.didRead, readOrigin |-> g.read.origin]

HikeBodies == {HikeDoc(FixturePage), HikeDoc(OtherHikePage), HikeDoc(NoElevationPage)}

\* the answers of the server to a request for url: a page with status 200,
\* a page with the unredirected status 300, or an error status
HikeResponses(url) ==
    {Response(200, b, url) : b \in HikeBodies}
    \cup {Response(300, HikeDoc(FixturePage), url),
          Response(404, HikeDoc(EmptyPage), url),
          Response(503, HikeDoc(EmptyPage), url)}

SampleHikeUrls ==
    << HIKE_PAGE_BASE \o <<"/","f","i","e","l","d","_","g","u","i","d","e","/","B","e","l","l","s","_","M","o","u","n","t","a","i","n","_","H","i","k","e">>,
       HIKE_PAGE_BASE \o <<"/","f","i","e","l","d","_","g","u","i","d","e","/","T","r","i","p","l","e","_","F","a","l","l","s","_","H","i","k","e">>,
       HIKE_PAGE_BASE \o <<"/","f","i","e","l","d","_","g","u","i","d","e","/","A","c","k","e","r","_","L","a","k","e","_","L","o","o","p","_","H","i","k","e">>,
       HIKE_PAGE_BASE \o <<"/","f","i","e","l","d","_","g","u","i","d","e","/","G","o","a","t","_","R","o","c","k","s","_","T","r","a","v","e","r","s","e","_","H","i","k","e">>,
       HIKE_PAGE_BASE \o <<"/","f","i","e","l","d","_","g","u","i","d","e","/","B","r","o","k","e","n","_","T","o","p","_","L","o","o","p","_","H","i","k","e">> >>

\* URLs for standalone calls: a sample URL, a second URL with the same last
\* path segment, and two URLs that end in "/"
UrlPool ==
    { SampleHikeUrls[1],
      HIKE_PAGE_BASE \o <<"/","w","/","B","e","l","l","s","_","M","o","u","n","t","a","i","n","_","H","i","k","e">>,
      HIKE_PAGE_BASE \o <<"/","f","i","e","l","d","_","g","u","i","d","e","/","T","r","i","p","l","e","_","F","a","l","l","s","_","H","i","k","e","/">>,
      HIKE_PAGE_BASE \o <<"/","f","i","e","l","d","_","g","u","i","d","e","/">> }

\* get_hike_from_url(url), the file being in the cache
CallCached(url) ==
    /\ Len(calls) < MaxCalls
    /\ PathExists(files, dirExists, HikePath(url))
    /\ \E g \in {GetHikeCached(files, url)} :
           /\ calls' = Append(calls, CallRecord(files, dirExists, url, g))
           /\ files' = g.files
    /\ UNCHANGED <<schemaVars, parseVars, searchVars, dirExists, netlog, batchVars>>

\* get_hike_from_url(url), the file not being in the cache
CallDownloading(url, resp) ==
    /\ Len(calls) < MaxCalls
    /\ ~PathExists(files, dirExists, HikePath(url))
    /\ \E g \in {GetHikeDownloaded(files, url, resp)} :
           /\ calls' = Append(calls, CallRecord(files, dirExists, url, g))
           /\ files' = g.files
           /\ netlog' = Append(netlog, Request("hike", url, g.status, g.wrote))
    /\ dirExists' = TRUE
    /\ UNCHANGED <<schemaVars, parseVars, searchVars, batchVars>>

-----------------------------------------------------------------------------
(* The two batch flows.                                                    *)

BACKPACKABLE_HIKES_URL ==
    <<"h","t","t","p","s",":","/","/","w","w","w",".","o","r","e","g","o","n","h","i","k","e","r","s",".","o","r","g","/","w","/","i","n","d","e","x",".","p","h","p","?","t","i","t","l","e","=","S","p","e","c","i","a","l",":","A","s","k","&","l","i","m","i","t","=","5","0","0">>
    \o <<"&","q","=","%","5","B","%","5","B","C","a","t","e","g","o","r","y","%","3","A","B","a","c","k","p","a","c","k","a","b","l","e","+","H","i","k","e","s","%","5","D","%","5","D","&","p","=","f","o","r","m","a","t","%","3","D","b","r","o","a","d","t","a","b","l","e">>
    \o <<"&","p","o","=","%","3","F","D","i","f","f","i","c","u","l","t","y","%","0","A","%","3","F","D","i","s","t","a","n","c","e","%","0","A","%","3","F","E","l","e","v","a","t","i","o","n","+","g","a","i","n","%","0","A","&","s","o","r","t","=","&","o","r","d","e","r","=","A","S","C">>

\* the cache file a listing fetched through get_hike_from_url would have
ListingPath == HikePath(BACKPACKABLE_HIKES_URL)

\* a slip: the listing is fetched like a hike page: looked up in the cache
\* first and stored in it when fetched
FetchListingThroughCache(fs, dir, resp) ==
    IF PathExists(fs, dir, ListingPath)
    THEN [requested |-> FALSE, exit |-> FALSE, files |-> fs,
          results |-> ParseSearchResults(fs[ListingPath].text.table)]
    ELSE IF RaisesForStatus(resp.status)
    THEN [requested |-> TRUE, exit |-> TRUE, files |-> fs,
          results |-> NotSearched]
    ELSE [requested |-> TRUE, exit |-> FALSE,
          files |-> [p \in DOMAIN fs \cup {ListingPath} |->
                        IF p = ListingPath THEN File(resp.text, resp.url) ELSE fs[p]],
          results |-> ParseSearchResults(resp.text.table)]

\* _get_backpackable_search_results() given the server's response: always a
\* request, an HTTPError becomes SystemExit, the body is parsed and written
\* nowhere
FetchListing(fs, dir, resp) ==
    IF RaisesForStatus(resp.status)
    THEN [requested |-> TRUE, exit |-> TRUE, files |-> fs, results |-> NotSearched]
    ELSE [requested |-> TRUE, exit |-> FALSE, files |-> fs,
          results |-> ParseSearchResults(resp.text.table)]

\* a slip: the new row is put in front of the frame
ConcatInFront(frame, rec) == <<rec>> \o frame

\* df = pd.concat([df, pd.DataFrame([parsed_hike.model_dump()])])
Concat(frame, rec) == Append(frame, rec)

ListedRows ==
    { Row(Anchor(<<"B","e","l","l","s"," ","M","o","u","n","t","a","i","n"," ","H","i","k","e">>, None, PyStr(<<"/","f","i","e","l","d","_","g","u","i","d","e","/","B","e","l","l","s","_","M","o","u","n","t","a","i","n","_","H","i","k","e">>))),
      Row(Anchor(<<"B","e","l","l","s"," ","(","o","l","d",")">>, None, PyStr(<<"/","w","/","B","e","l","l","s","_","M","o","u","n","t","a","i","n","_","H","i","k","e">>))),
      Row(Anchor(<<"A">>, None, PyStr(<<"f","i","e","l","d","_","g","u","i","d","e","/","A">>))) }

ListingTables ==
    {[present |-> TRUE, rows |-> <<HeaderRow>> \o rs] :
        rs \in UNION {[1..n -> ListedRows] : n \in 0..MaxListed}}

\* the answers of the server to the request for the listing
ListingResponses ==
    {Response(200, ListingDoc(t), BACKPACKABLE_HIKES_URL) : t \in ListingTables}
    \cup {Response(200, ListingDoc(NoTable), BACKPACKABLE_HIKES_URL),
          Response(404, ListingDoc(NoTable), BACKPACKABLE_HIKES_URL)}

\* a listing left in the cache directory before the run
StaleListing ==
    File(ListingDoc([present |-> TRUE, rows |-> <<HeaderRow>>]), <<>>)

\* get_oh_sample_hikes_df() is called
StartSample ==
    /\ pc = "idle"
    /\ pc' = "running" /\ flow' = "sample"
    /\ urls' = SampleHikeUrls /\ idx' = 0 /\ df' = <<>> /\ returned' = FALSE
    /\ netlog' = <<>>
    /\ UNCHANGED <<schemaVars, parseVars, searchVars, diskVars, calls>>

\* get_oh_backpackable_hikes_df() is called: the listing is fetched
\* and parsed, its results' URLs are the list of the loop
StartDiscovery(resp) ==
    /\ pc = "idle"
    /\ \E l \in {FetchListing(files, dirExists, resp)} :
           /\ files' = l.files
           /\ netlog' = IF l.requested
                        THEN <<Request("listing", BACKPACKABLE_HIKES_URL, resp.status,
                                       l.files # files)>>
                        ELSE <<>>
           /\ pc' = IF l.exit THEN "exited"
                    ELSE IF l.results.err # "none" THEN "raised"
                    ELSE "running"
           /\ urls' = [i \in 1..Len(l.results.list) |-> l.results.list[i].url]
    /\ flow' = "discovery"
    /\ idx' = 0 /\ df' = <<>> /\ returned' = FALSE
    /\ UNCHANGED <<schemaVars, parseVars, searchVars, dirExists, calls>>

\* the effect of one call of get_hike_from_url in the loop
LoopEffect(g) ==
    /\ files' = g.files
    /\ IF g.result.outcome = "returned"
       THEN /\ df' = Concat(df, g.result.rec)
            /\ idx' = idx + 1
            /\ pc' = "running"
       ELSE /\ pc' = IF g.result.outcome = "SystemExit" THEN "exited" ELSE "raised"
            /\ UNCHANGED <<df, idx>>
    /\ UNCHANGED <<schemaVars, parseVars, searchVars, calls, flow, urls, returned>>

\* one turn of the loop, the next URL's file being in the cache
LoopCached ==
    /\ pc = "running" /\ idx < Len(urls)
    /\ PathExists(files, dirExists, HikePath(urls[idx + 1]))
    /\ \E g \in {GetHikeCached(files, urls[idx + 1])} : LoopEffect(g)
    /\ UNCHANGED <<dirExists, netlog>>

\* one turn of the loop, the next URL's file not being in the cache
LoopDownloading(resp) ==
    /\ pc = "running" /\ idx < Len(urls)
    /\ ~PathExists(files, dirExists, HikePath(urls[idx + 1]))
    /\ \E g \in {GetHikeDownloaded(files, urls[idx + 1], resp)} :
           /\ LoopEffect(g)
           /\ netlog' = Append(netlog, Request("hike", urls[idx + 1], g.status, g.wrote))
    /\ dirExists' = TRUE

\* the loop is over: return df
ReturnFrame ==
    /\ pc = "running" /\ idx = Len(urls)
    /\ pc' = "returned" /\ returned' = TRUE
    /\ UNCHANGED <<schemaVars, parseVars, searchVars, diskVars, netlog, calls,
                   flow, urls, idx, df>>

-----------------------------------------------------------------------------
(* Specifications.                                                         *)

SchemaIdle == fields = NoRecord /\ hike = NotConstructed
ParseIdle == soup = EmptyPage /\ parsed = NotParsed
SearchIdle == table = [present |-> FALSE, rows |-> <<>>] /\ search_results = NotSearched
DiskIdle == files = <<>> /\ dirExists = TRUE
FetchIdle == netlog = <<>> /\ calls = <<>>
BatchIdle ==
    /\ pc = "idle" /\ flow = "none" /\ urls = <<>> /\ idx = 0
    /\ df = <<>> /\ returned = FALSE

InitSchema ==
    /\ fields \in SchemaInputs
    /\ hike = NotConstructed
    /\ ParseIdle /\ SearchIdle /\ DiskIdle /\ FetchIdle /\ BatchIdle

NextSchema == ConstructHike

SpecSchema == InitSchema /\ [][NextSchema]_vars

InitParse ==
    /\ soup \in PageInputs
    /\ parsed = NotParsed
    /\ SchemaIdle /\ SearchIdle /\ DiskIdle /\ FetchIdle /\ BatchIdle

NextParse == ParsePage

SpecParse == InitParse /\ [][NextParse]_vars

InitSearch ==
    /\ table \in TableInputs
    /\ search_results = NotSearched
    /\ SchemaIdle /\ ParseIdle /\ DiskIdle /\ FetchIdle /\ BatchIdle

NextSearch == ParseResults

SpecSearch == InitSearch /\ [][NextSearch]_vars

\* standalone calls of get_hike_from_url against a cache directory that is
\* missing, empty, or holds a file for the first sample URL
InitFetch ==
    /\ \/ files = <<>> /\ dirExists \in BOOLEAN
       \/ /\ files = [p \in {HikePath(SampleHikeUrls[1])} |->
                         File(HikeDoc(OtherHikePage), SampleHikeUrls[1])]
          /\ dirExists = TRUE
    /\ FetchIdle
    /\ SchemaIdle /\ ParseIdle /\ SearchIdle /\ BatchIdle

\* the same calls, starting without any cache file
InitColdCache ==
    /\ files = <<>> /\ dirExists \in BOOLEAN
    /\ FetchIdle
    /\ SchemaIdle /\ ParseIdle /\ SearchIdle /\ BatchIdle

NextFetch ==
    \/ \E u \in UrlPool : CallCached(u)
    \/ \E u \in UrlPool : \E r \in HikeResponses(u) : CallDownloading(u, r)

SpecFetch == InitFetch /\ [][NextFetch]_vars

SpecColdCache == InitColdCache /\ [][NextFetch]_vars

\* a batch run against a cache directory that is missing, empty, holds a
\* file under the name the listing's URL maps to, or holds the files of
\* hikes fetched earlier
InitBatch ==
    /\ \/ files = <<>> /\ dirExists \in BOOLEAN
       \/ files = [p \in {ListingPath} |-> StaleListing] /\ dirExists = TRUE
       \/ /\ files = [p \in {HikePath(SampleHikeUrls[1]), HikePath(SampleHikeUrls[3])} |->
                         IF p = HikePath(SampleHikeUrls[1])
                         THEN File(HikeDoc(OtherHikePage), SampleHikeUrls[1])
                         ELSE File(HikeDoc(FixturePage), SampleHikeUrls[3])]
          /\ dirExists = TRUE
    /\ FetchIdle /\ BatchIdle
    /\ SchemaIdle /\ ParseIdle /\ SearchIdle

NextBatch ==
    \/ StartSample
    \/ \E r \in ListingResponses : StartDiscovery(r)
    \/ LoopCached
    \/ idx < Len(urls) /\ \E r \in HikeResponses(urls[idx + 1]) : LoopDownloading(r)
    \/ ReturnFrame

SpecBatch == InitBatch /\ [][NextBatch]_vars

-----------------------------------------------------------------------------
(* The record schema's claims, under SpecSchema.                           *)

Constructed == hike.err # "pending"

\* every field other than k passed its validation
OthersValid(k) == \A j \in FieldNames \ {k} : FieldValid(j, hike.before[j])

HasDigit(s) == \E i \in 1..Len(s) : IsDigit(s[i])

\* a..b is the first maximal run of digits of s
IsFirstMaximalRun(s, a, b) ==
    /\ a \in 1..Len(s) /\ b \in a..Len(s)
    /\ \A i \in 1..(a - 1) : ~IsDigit(s[i])
    /\ \A i \in a..b : IsDigit(s[i])
    /\ (b = Len(s) \/ ~IsDigit(s[b + 1]))

\* C5: a text holding at least one digit, given for elevation_gain_in_feet
\* or high_point_in_feet, makes the constructed record hold in that field
\* the integer value of the first maximal run of digits of the text.
C5_DigitRunExtraction ==
    Constructed =>
        \A k \in IntFields :
            (fields[k].t = "str" /\ HasDigit(fields[k].s) /\ OthersValid(k)) =>
                /\ hike.err = "none"
                /\ \E a \in 1..Len(fields[k].s), b \in 1..Len(fields[k].s) :
                       /\ IsFirstMaximalRun(fields[k].s, a, b)
                       /\ hike.rec[k] = PyInt(DecimalValue(SubSeq(fields[k].s, a, b)))

\* a text with two digit runs, the first two digits long, was constructed
C5_Witness ==
    /\ hike.err = "none"
    /\ fields["elevation_gain_in_feet"] = PyStr(<<"1","0","a","1">>)
    /\ hike.rec["elevation_gain_in_feet"] = PyInt(10)

\* C6 as stated: a text without any digit, given for a numeric field with
\* all other fields valid, is constructed into a record that holds the text
\* unchanged in that field.
C6_NoDigitPassThrough ==
    Constructed =>
        \A k \in IntFields :
            (fields[k].t = "str" /\ ~HasDigit(fields[k].s) /\ OthersValid(k)) =>
                hike.err = "none" /\ hike.rec[k] = fields[k]

\* C6 as amended: for such a text extract_ints returns the text unchanged,
\* and the int validation of the field then rejects it: construction fails
\* with a ValidationError and no record holds the text.
C6_NoDigitRejected ==
    Constructed =>
        \A k \in IntFields :
            (fields[k].t = "str" /\ ~HasDigit(fields[k].s)) =>
                /\ hike.before[k] = fields[k]
                /\ hike.err = "ValidationError"
                /\ hike.rec = NoRecord

\* a text without digits was given for elevation_gain_in_feet, every other
\* field being valid, and the construction was attempted
C6_Witness ==
    /\ Constructed
    /\ fields["elevation_gain_in_feet"] = PyStr(<<"a","a">>)
    /\ OthersValid("elevation_gain_in_feet")
    /\ hike.err = "ValidationError"

\* C7 as stated: for each URL field None gives None, a text that parses as
\* an absolute HTTP(S) URL gives the parsed URL, and a non-empty text that
\* does not parse is kept unchanged in the constructed record.
C7_LenientUrlFallback ==
    Constructed =>
        \A k \in UrlFields :
            OthersValid(k) =>
                /\ fields[k].t = "None" => hike.err = "none" /\ hike.rec[k] = None
                /\ (fields[k].t = "str" /\ IsHttpUrl(fields[k].s)) =>
                       hike.err = "none" /\ hike.rec[k] = HttpUrl(fields[k].s)
                /\ (fields[k].t = "str" /\ fields[k].s # <<>> /\ ~IsHttpUrl(fields[k].s)) =>
                       hike.err = "none" /\ hike.rec[k] = fields[k]

\* C7 as amended: None gives None for the three optional URL fields and is
\* rejected for the required url; a text that parses gives the parsed URL;
\* a non-empty text that does not parse is returned unchanged by cast_url
\* and then rejected by the field's HttpUrl validation, so construction
\* fails with a ValidationError.
C7_UrlFallbackRejected ==
    Constructed =>
        \A k \in UrlFields :
            /\ (fields[k].t = "None" /\ OthersValid(k)) =>
                   IF k \in OptionalFields
                   THEN hike.err = "none" /\ hike.rec[k] = None
                   ELSE hike.err = "ValidationError"
            /\ (fields[k].t = "str" /\ IsHttpUrl(fields[k].s) /\ OthersValid(k)) =>
                   hike.err = "none" /\ hike.rec[k] = HttpUrl(fields[k].s)
            /\ (fields[k].t = "str" /\ fields[k].s # <<>> /\ ~IsHttpUrl(fields[k].s)) =>
                   /\ hike.before[k] = fields[k]
                   /\ hike.err = "ValidationError"
                   /\ hike.rec = NoRecord

\* a relative address was given for the optional start_point_url, every
\* other field being valid, and the construction was attempted
C7_Witness ==
    /\ Constructed
    /\ fields["start_point_url"] = PyStr(<<"/","s","t","a","r","t">>)
    /\ OthersValid("start_point_url")
    /\ hike.err = "ValidationError"
    /\ fields["end_point_url"] = None

-----------------------------------------------------------------------------
(* The hike-page parser's claim, under SpecParse.                          *)

Parsed == parsed.err # "pending"

\* the label that supplies each text field
TextLabels ==
    << <<"hike_type", <<"H","i","k","e"," ","T","y","p","e">>>>,
       <<"distance_in_miles", <<"D","i","s","t","a","n","c","e">>>>,
       <<"elevation_gain_in_feet", <<"E","l","e","v","a","t","i","o","n"," ","g","a","i","n">>>>,
       <<"high_point_in_feet", <<"H","i","g","h"," ","p","o","i","n","t">>>>,
       <<"difficulty", <<"D","i","f","f","i","c","u","l","t","y">>>>,
       <<"seasons", <<"S","e","a","s","o","n","s">>>>,
       <<"family_friendly", <<"F","a","m","i","l","y"," ","F","r","i","e","n","d","l","y">>>>,
       <<"backpackable", <<"B","a","c","k","p","a","c","k","a","b","l","e">>>>,
       <<"crowded", <<"C","r","o","w","d","e","d">>>> >>

\* item i is the first of the list whose text contains the label
IsFirstItemWith(lis, i, label) ==
    /\ i \in 1..Len(lis)
    /\ Contains(lis[i].text, label)
    /\ \A j \in 1..(i - 1) : ~Contains(lis[j].text, label)

NoItemWith(lis, label) == \A i \in 1..Len(lis) : ~Contains(lis[i].text, label)

\* val is None without an item for the label, and From(item) of the first
\* such item otherwise
TakenFromFirst(lis, label, val, From(_)) ==
    \/ NoItemWith(lis, label) /\ val = None
    \/ \E i \in 1..Len(lis) : IsFirstItemWith(lis, i, label) /\ val = From(lis[i])

\* the text fields and the point names, as the claim and its amendment
\* both state them
TextAndNameFields ==
    /\ \A n \in 1..Len(TextLabels) :
           TakenFromFirst(soup.lis, TextLabels[n][2], parsed.d[TextLabels[n][1]],
                          LAMBDA li : PyStr(li.text))
    /\ TakenFromFirst(soup.lis, <<"S","t","a","r","t"," ","p","o","i","n","t">>, parsed.d["start_point_name"],
                      LAMBDA li : li.a.title)
    /\ TakenFromFirst(soup.lis, <<"E","n","d"," ","p","o","i","n","t">>, parsed.d["end_point_name"],
                      LAMBDA li : li.a.title)
    /\ TakenFromFirst(soup.lis, <<"T","r","a","i","l"," ","L","o","g">>, parsed.d["trail_log_url"],
                      LAMBDA li : IF li.a.present
                                  THEN PyStr(HIKE_PAGE_BASE \o li.a.href.s)
                                  ELSE None)

\* C8 as stated: each field comes from the first list item whose text
\* contains its label and is None without such an item; text fields are the
\* item's text, point names the anchor's title, point URLs the base address
\* plus the anchor's href, the trail log URL the base address plus href when
\* the item holds an anchor and None otherwise.
C8_LabelScanning ==
    parsed.err = "none" =>
        /\ TextAndNameFields
        /\ TakenFromFirst(soup.lis, <<"S","t","a","r","t"," ","p","o","i","n","t">>, parsed.d["start_point_url"],
                          LAMBDA li : PyStr(HIKE_PAGE_BASE \o li.a.href.s))
        /\ TakenFromFirst(soup.lis, <<"E","n","d"," ","p","o","i","n","t">>, parsed.d["end_point_url"],
                          LAMBDA li : PyStr(HIKE_PAGE_BASE \o li.a.href.s))

\* the pages on which the parser returns a mapping: heading, content
\* region, list and paragraph exist, the first Start point and End point
\* items hold an anchor with title and href, and the anchor of the first
\* Trail Log item, if it has one, has an href
Parseable(page) ==
    /\ page.h1.t # "None" /\ page.content /\ page.ul /\ page.p.t # "None"
    /\ \A i \in 1..Len(page.lis) :
           /\ (IsFirstItemWith(page.lis, i, <<"S","t","a","r","t"," ","p","o","i","n","t">>)
               \/ IsFirstItemWith(page.lis, i, <<"E","n","d"," ","p","o","i","n","t">>)) =>
                  /\ page.lis[i].a.present
                  /\ page.lis[i].a.title.t # "None"
                  /\ page.lis[i].a.href.t # "None"
           /\ (IsFirstItemWith(page.lis, i, <<"T","r","a","i","l"," ","L","o","g">>) /\ page.lis[i].a.present) =>
                  page.lis[i].a.href.t # "None"

\* C8 as amended: as stated, except that a point URL is the base address
\* plus the href only for a non-empty href and is the empty href itself
\* otherwise, and that the parser returns a mapping exactly on the pages
\* described by Parseable and raises on the others.
C8_LabelScanningAmended ==
    Parsed =>
        /\ parsed.err = "none" <=> Parseable(soup)
        /\ parsed.err = "none" =>
               /\ TextAndNameFields
               /\ TakenFromFirst(soup.lis, <<"S","t","a","r","t"," ","p","o","i","n","t">>, parsed.d["start_point_url"],
                                 LAMBDA li : IF li.a.href.s = <<>> THEN li.a.href
                                             ELSE PyStr(HIKE_PAGE_BASE \o li.a.href.s))
               /\ TakenFromFirst(soup.lis, <<"E","n","d"," ","p","o","i","n","t">>, parsed.d["end_point_url"],
                                 LAMBDA li : IF li.a.href.s = <<>> THEN li.a.href
                                             ELSE PyStr(HIKE_PAGE_BASE \o li.a.href.s))

\* a list whose two items both contain "Distance" and neither
\* "Backpackable" was parsed: the first item supplied the distance
C8_Witness ==
    /\ parsed.err = "none"
    /\ Len(soup.lis) = 2
    /\ Contains(soup.lis[1].text, <<"D","i","s","t","a","n","c","e">>)
    /\ Contains(soup.lis[2].text, <<"D","i","s","t","a","n","c","e">>)
    /\ soup.lis[1] # soup.lis[2]
    /\ parsed.d["distance_in_miles"] = PyStr(soup.lis[1].text)
    /\ parsed.d["backpackable"] = None

-----------------------------------------------------------------------------
(* The search-results parser's claim, under SpecSearch.                    *)

\* C4 as stated: a table with a header row and N data rows parses to N
\* results in row order, each with the title and uri of its row's first
\* anchor and with url equal to the prefix the hike-page parser uses
\* followed by the uri; a header-only table parses to the empty sequence.
C4_SearchResultsParsing ==
    (search_results.err = "none" /\ Len(table.rows) >= 1) =>
        /\ Len(search_results.list) = Len(table.rows) - 1
        /\ \A i \in 1..Len(search_results.list) :
               /\ search_results.list[i].title = table.rows[i + 1].a.text
               /\ search_results.list[i].uri = table.rows[i + 1].a.href.s
               /\ search_results.list[i].url =
                      HIKE_PAGE_BASE \o search_results.list[i].uri

-----------------------------------------------------------------------------
(* The fetch cache's claims, under SpecFetch and SpecColdCache.            *)

\* C1: two successive calls of get_hike_from_url on one URL, neither ended
\* by a failed fetch, issue one request in total when the cache file was
\* absent before the first and none when it was present; both resolve to
\* the path OH_SOURCE_DIR/<last path segment>.html; and a call that finds
\* the file present issues no request and leaves the file as it was.
C1_FetchCacheIdempotence ==
    /\ \A i \in 1..(Len(calls) - 1) :
           (/\ calls[i].url = calls[i + 1].url
            /\ calls[i].outcome # "SystemExit"
            /\ calls[i + 1].outcome # "SystemExit") =>
               /\ calls[i].requests + calls[i + 1].requests =
                      IF calls[i].existed THEN 0 ELSE 1
               /\ calls[i].path = calls[i + 1].path
               /\ calls[i].path =
                      OH_SOURCE_DIR \o LastSegment(calls[i].url) \o <<".","h","t","m","l">>
    /\ \A i \in 1..Len(calls) :
           calls[i].existed => calls[i].requests = 0 /\ calls[i].unchanged

\* a URL was fetched and then asked for again
C1_Witness ==
    /\ Len(calls) = 2
    /\ calls[1].url = calls[2].url
    /\ ~calls[1].existed /\ calls[1].requests = 1 /\ calls[1].outcome = "returned"
    /\ calls[2].existed /\ calls[2].requests = 0 /\ calls[2].outcome = "returned"

\* C10: starting from an empty cache directory, the file a call of
\* get_hike_from_url reads for URL u was written from the response to a
\* request for u.
C10_CacheEntryMatchesUrl ==
    \A i \in 1..Len(calls) :
        calls[i].didRead => calls[i].readOrigin = calls[i].url

-----------------------------------------------------------------------------
(* The batch flows' claims, under SpecBatch.                               *)

\* C2 as stated: a hike fetch answered with a status outside 200..299 ends
\* the run with SystemExit: it is the last request, no cache file is
\* written for it, and no data frame is returned.
C2_FailFastNon2xx ==
    \A i \in 1..Len(netlog) :
        (netlog[i].kind = "hike" /\ netlog[i].status \notin 200..299) =>
            /\ i = Len(netlog)
            /\ pc = "exited"
            /\ ~netlog[i].wrote
            /\ ~returned

\* C2 as amended: the same of a hike fetch answered with a 4xx or 5xx
\* status.
C2_FailFast4xx5xx ==
    \A i \in 1..Len(netlog) :
        (netlog[i].kind = "hike" /\ netlog[i].status \in 400..599) =>
            /\ i = Len(netlog)
            /\ pc = "exited"
            /\ ~netlog[i].wrote
            /\ ~returned

\* the sample flow had two records when the third URL's fetch got a 404
C2_Witness ==
    /\ flow = "sample" /\ pc = "exited"
    /\ idx = 2 /\ Len(df) = 2
    /\ netlog[Len(netlog)].url = SampleHikeUrls[3]
    /\ netlog[Len(netlog)].status = 404
    /\ HikePath(SampleHikeUrls[3]) \notin DOMAIN files

\* C3: throughout a batch run the data frame holds one record per URL
\* already processed, the record at position i having the i-th URL of the
\* list; a returned frame has as many records as the list has URLs, also
\* when a URL occurs twice.
C3_OrderPreservation ==
    /\ Len(df) = idx
    /\ idx <= Len(urls)
    /\ \A i \in 1..Len(df) : df[i]["url"] = PyUrl(urls[i])
    /\ returned => Len(df) = Len(urls)

\* a discovery run over a listing that names one hike twice returned
C3_Witness ==
    /\ returned /\ flow = "discovery"
    /\ Len(urls) = 2 /\ urls[1] = urls[2]
    /\ Len(df) = 2

ListingRequested == \E i \in 1..Len(netlog) : netlog[i].kind = "listing"

\* C9 as stated: the discovery flow looks the listing up in the cache
\* before any request, so a run that finds it cached issues no request for
\* it, and a run that fetches it stores it in the cache.
C9_ListingThroughCache ==
    flow = "discovery" =>
        /\ (ListingPath \in DOMAIN files /\ files[ListingPath] = StaleListing) =>
               ~ListingRequested
        /\ (ListingRequested /\ pc # "exited") => ListingPath \in DOMAIN files

\* C9 as amended: the discovery flow requests the listing from the network
\* on every run, as its first request and whether or not a file for it is
\* in the cache, and writes no cache file for it.
C9_ListingFetchedDirectly ==
    flow = "discovery" =>
        /\ Len(netlog) >= 1
        /\ netlog[1].kind = "listing"
        /\ netlog[1].url = BACKPACKABLE_HIKES_URL
        /\ ~netlog[1].wrote
        /\ \A i \in 2..Len(netlog) : netlog[i].kind = "hike"
        /\ ListingPath \in DOMAIN files => files[ListingPath] = StaleListing

\* a discovery run started with a file for the listing in the cache
C9_Witness ==
    /\ flow = "discovery" /\ pc = "running"
    /\ ListingPath \in DOMAIN files
    /\ Len(netlog) = 1 /\ netlog[1].kind = "listing" /\ netlog[1].status = 200
    /\ Len(urls) = 2

====
